---- MODULE Spec2Model ----
(***************************************************************************)
(* Model of the Gallery component (src/src/components/Gallery.js): the     *)
(* five useState cells, the fetchImages callback and its useEffect, the    *)
(* refresh and pagination handlers, and the completion of in-flight        *)
(* requests.  One action is one event handler run to completion, with the  *)
(* state updates it batches, the render that follows and the effect that   *)
(* render schedules.                                                       *)
(***************************************************************************)
EXTENDS Integers, Sequences, FiniteSets, TLC

\* ---------------------------------------------------------------- bounds
MaxPage == 3        \* largest currentPage / totalPages a response declares
MaxRows == 2        \* longest rows array a response carries
MaxInFlight == 2    \* most requests outstanding together
MaxNameLen == 5     \* longest username string an image carries

\* ------------------------------------------------------ program constants
PageSize == 20
NoError == "null"
TransportMsg == "Failed to load images. Please try again later."
InvalidMsg == "Received invalid data from server"

\* ---------------------------------------------------------------- helpers
Max(a, b) == IF a >= b THEN a ELSE b
Min(a, b) == IF a <= b THEN a ELSE b
\* variant: the quotient is truncated instead of rounded up
CeilTruncates(a, b) == a \div b

\* Math.ceil(a / b) for a >= 0, b > 0
Ceil(a, b) == (a + b - 1) \div b
RemoveAt(s, i) == [j \in 1..(Len(s) - 1) |-> IF j < i THEN s[j] ELSE s[j + 1]]

\* ------------------------------------------------- decoded response bodies
\* rows arrays: image ids 1..n, unique within the page
RowsOf(n) == [k \in 1..n |-> k]
RowCounts == {0, 1, PageSize, PageSize + 1}
\* totalPages 0 stands for a body whose totalPages is absent or zero
ValidBodies ==
    [shape : {"valid"},
     rows : {RowsOf(n) : n \in 0..MaxRows},
     rowCount : RowCounts,
     currentPage : 1..MaxPage,
     totalPages : 0..MaxPage]
MalformedBody(s) ==
    [shape |-> s, rows |-> << >>, rowCount |-> 0, currentPage |-> 1, totalPages |-> 0]
\* "null": the body is null/undefined; "noImages": an object without images;
\* "noRows": images without rows; "rowsNotArray": images.rows is not an array
MalformedShapes == {"null", "noImages", "noRows", "rowsNotArray"}
Bodies == ValidBodies \cup {MalformedBody(s) : s \in MalformedShapes}
NoData == [shape |-> "none"]

\* ------------------------------------------------------------- usernames
\* a username value: its typeof and, for a string, its characters
LeadChars == {"\"", "'", "{"}
TrailChars == {"}", "\"", "'"}
Alphabet == LeadChars \cup TrailChars \cup {"a"}
Strings(n) == UNION {[1..k -> Alphabet] : k \in 0..n}
NonStringTypes == {"undefined", "null", "number", "boolean", "object"}
NoUsername == [type |-> "undefined", chars |-> << >>]
Usernames ==
    [type : {"string"}, chars : Strings(MaxNameLen)]
        \cup {[type |-> t, chars |-> << >>] : t \in NonStringTypes}
UnknownUser == <<"U", "n", "k", "n", "o", "w", "n", " ", "U", "s", "e", "r">>
NotShown == [shown |-> FALSE, text |-> << >>]

VARIABLES
    images,        \* useState([])
    currentPage,   \* useState(1)
    totalPages,    \* useState(1)
    isLoading,     \* useState(false)
    error,         \* useState(null)
    mounted,       \* the first effect has run
    inFlight,      \* pages of the axios.get calls not yet settled, in issue order
    last,          \* the handler that ran last: its kind, input and effect
    settled,       \* the request the last handler settled, and what it overlapped
    item,          \* image.username of the image an ImageItem is given
    caption        \* the username that ImageItem shows

vars == <<images, currentPage, totalPages, isLoading, error, mounted, inFlight, last,
          settled, item, caption>>

View == [images |-> images, currentPage |-> currentPage, totalPages |-> totalPages,
         isLoading |-> isLoading, error |-> error]

\* -------------------------------------------------------- updateGalleryState
\* property access on null/undefined throws a TypeError
Throws(data) == data.shape = "null"
\* data.images && Array.isArray(data.images.rows)
IsValidShape(data) == data.shape = "valid"

calculatedTotalPages(data) ==
    IF data.totalPages > 0 THEN data.totalPages ELSE Ceil(data.rowCount, PageSize)

\* variant: a valid response for a page other than the displayed one is dropped
updateGalleryStateDiscardsStale(st, data) ==
    IF IsValidShape(data)
    THEN (IF data.currentPage = st.currentPage
          THEN [st EXCEPT !.images = data.rows,
                          !.totalPages = calculatedTotalPages(data)]
          ELSE st)
    ELSE [st EXCEPT !.error = InvalidMsg, !.images = << >>]

\* variant: a valid response does not move the gallery to its page
updateGalleryStateKeepsPage(st, data) ==
    IF IsValidShape(data)
    THEN [st EXCEPT !.images = data.rows,
                    !.totalPages = calculatedTotalPages(data)]
    ELSE [st EXCEPT !.error = InvalidMsg, !.images = << >>]

updateGalleryState(st, data) ==
    IF IsValidShape(data)
    THEN [st EXCEPT !.images = data.rows,
                    !.currentPage = data.currentPage,
                    !.totalPages = calculatedTotalPages(data)]
    ELSE [st EXCEPT !.error = InvalidMsg, !.images = << >>]

\* ---------------------------------------------------------- handleFetchError
\* variant: the error handler also sends the gallery back to the first page
handleFetchErrorResetsPage(st) == [st EXCEPT !.error = TransportMsg, !.currentPage = 1]

handleFetchError(st) == [st EXCEPT !.error = TransportMsg]

\* --------------------------------------------------------------- fetchImages
\* variant: the start of a fetch also empties the displayed list
fetchStartClearsItems(st) ==
    [st EXCEPT !.isLoading = TRUE, !.error = NoError, !.images = << >>]

\* variant: the start of a fetch leaves the previous error in place
fetchStartKeepsError(st) == [st EXCEPT !.isLoading = TRUE]

\* the part before the await: two state updates, then the request is issued
fetchStart(st) == [st EXCEPT !.isLoading = TRUE, !.error = NoError]
\* the part after the await, for a request that resolved with body data
fetchResolved(st, data) ==
    LET s1 == IF Throws(data) THEN handleFetchError(st) ELSE updateGalleryState(st, data)
    IN [s1 EXCEPT !.isLoading = FALSE]
\* variant: the catch path returns without setIsLoading(false)
fetchRejectedKeepsLoading(st) == handleFetchError(st)

\* the part after the await, for a request that rejected
fetchRejected(st) == [handleFetchError(st) EXCEPT !.isLoading = FALSE]

\* ----------------------------------------------------------------- useEffect
\* variant: the effect has no dependency list and runs after every render
EffectRunsAlways(old, new) == TRUE

\* fetchImages is rebuilt, and the effect re-run, when currentPage changed
EffectRuns(old, new) == old.currentPage # new.currentPage

\* render after a handler left the view state at st: the effect, when it runs,
\* calls fetchImages for the page of that render
Commit(old, st, pending, op, data) ==
    LET run == EffectRuns(old, st)
        fin == IF run THEN fetchStart(st) ELSE st
    IN /\ images' = fin.images
       /\ currentPage' = fin.currentPage
       /\ totalPages' = fin.totalPages
       /\ isLoading' = fin.isLoading
       /\ error' = fin.error
       /\ inFlight' = IF run THEN Append(pending, st.currentPage) ELSE pending
       /\ last' = [op |-> op, data |-> data, started |-> IF run THEN 1 ELSE 0]
       /\ UNCHANGED <<item, caption>>

\* ------------------------------------------------------------ parseUsername
\* the length of the match of ^["'{]+ at the start of s, from k characters on
RECURSIVE LeadMatch(_, _)
LeadMatch(s, k) ==
    IF k < Len(s) /\ s[k + 1] \in LeadChars THEN LeadMatch(s, k + 1) ELSE k

\* s.replace(/^["'{]+|[}"']+$/g, ''), scanning from position pos: the first
\* alternative matches at the start of the string only, the second where
\* every character up to the end is in the class; else the character is kept
RECURSIVE ReplaceFrom(_, _)
ReplaceFrom(s, pos) ==
    IF pos > Len(s) THEN << >>
    ELSE IF pos = 1 /\ LeadMatch(s, 0) > 0 THEN ReplaceFrom(s, LeadMatch(s, 0) + 1)
    ELSE IF \A k \in pos..Len(s) : s[k] \in TrailChars THEN << >>
    ELSE <<s[pos]>> \o ReplaceFrom(s, pos + 1)

\* variant: the cleaned string is returned even when it is empty
parseUsernameNoFallback(usernameString) ==
    IF usernameString.type # "string" THEN UnknownUser
    ELSE ReplaceFrom(usernameString.chars, 1)

parseUsername(usernameString) ==
    IF usernameString.type # "string" THEN UnknownUser
    ELSE LET cleanedString == ReplaceFrom(usernameString.chars, 1)
         IN IF cleanedString = << >> THEN UnknownUser ELSE cleanedString

\* ------------------------------------------------------- settled requests
\* no request was settled by the handler
NoneSettled == [idx |-> 0, over |-> "none"]
\* the request at position i settles.  When the handler before was the
\* application of a valid response and request i was already outstanding
\* while that one was (it is not the request the effect of that handler
\* issued), the two overlapped: "older" when request i was issued before the
\* one applied then, "newer" when after it.
Settle(i) ==
    [idx |-> i,
     over |-> IF /\ last.op = "resolved"
                 /\ IsValidShape(last.data)
                 /\ i <= Len(inFlight) - last.started
              THEN (IF i < settled.idx THEN "older" ELSE "newer")
              ELSE "none"]

\* ---------------------------------------------------------------- Pagination
PreviousDisabled == currentPage = 1 \/ isLoading
\* variant: the Next button is not disabled while loading
NextDisabledIgnoresLoading == currentPage = totalPages

NextDisabled == currentPage = totalPages \/ isLoading

\* ------------------------------------------------------------------- actions
Init ==
    /\ images = << >>
    /\ currentPage = 1
    /\ totalPages = 1
    /\ isLoading = FALSE
    /\ error = NoError
    /\ mounted = FALSE
    /\ inFlight = << >>
    /\ last = [op |-> "init", data |-> NoData, started |-> 0]
    /\ settled = NoneSettled
    /\ item = NoUsername
    /\ caption = NotShown

\* first render: the effect runs fetchImages
Mount ==
    /\ ~mounted
    /\ mounted' = TRUE
    /\ LET fin == fetchStart(View)
       IN /\ images' = fin.images
          /\ currentPage' = fin.currentPage
          /\ totalPages' = fin.totalPages
          /\ isLoading' = fin.isLoading
          /\ error' = fin.error
    /\ inFlight' = Append(inFlight, currentPage)
    /\ last' = [op |-> "mount", data |-> NoData, started |-> 1]
    /\ settled' = NoneSettled
    /\ UNCHANGED <<item, caption>>

handleRefresh ==
    /\ mounted
    /\ Len(inFlight) < MaxInFlight
    /\ LET fin == fetchStart(View)
       IN /\ images' = fin.images
          /\ currentPage' = fin.currentPage
          /\ totalPages' = fin.totalPages
          /\ isLoading' = fin.isLoading
          /\ error' = fin.error
    /\ inFlight' = Append(inFlight, currentPage)
    /\ last' = [op |-> "refresh", data |-> NoData, started |-> 1]
    /\ settled' = NoneSettled
    /\ UNCHANGED <<mounted, item, caption>>

\* variant: the previous page without the lower clamp
previousUnclamped(page) == page - 1

previous(page) == Max(page - 1, 1)
next(page, total) == Min(page + 1, total)

goToPreviousPage ==
    /\ mounted
    /\ LET st == [View EXCEPT !.currentPage = previous(currentPage)]
       IN /\ EffectRuns(View, st) => Len(inFlight) < MaxInFlight
          /\ Commit(View, st, inFlight, "previous", NoData)
    /\ settled' = NoneSettled
    /\ UNCHANGED mounted

goToNextPage ==
    /\ mounted
    /\ LET st == [View EXCEPT !.currentPage = next(currentPage, totalPages)]
       IN /\ EffectRuns(View, st) => Len(inFlight) < MaxInFlight
          /\ Commit(View, st, inFlight, "next", NoData)
    /\ settled' = NoneSettled
    /\ UNCHANGED mounted

\* a click reaches the handler only when the button is not disabled
ClickPrevious == ~PreviousDisabled /\ goToPreviousPage
ClickNext == ~NextDisabled /\ goToNextPage

\* the i-th outstanding request resolves with body data
FetchResolved ==
    \E i \in 1..Len(inFlight) : \E data \in Bodies :
        /\ Commit(View, fetchResolved(View, data), RemoveAt(inFlight, i), "resolved", data)
        /\ settled' = Settle(i)
        /\ UNCHANGED mounted

\* the i-th outstanding request rejects
FetchRejected ==
    \E i \in 1..Len(inFlight) :
        /\ Commit(View, fetchRejected(View), RemoveAt(inFlight, i), "rejected", NoData)
        /\ settled' = Settle(i)
        /\ UNCHANGED mounted

Next ==
    \/ Mount
    \/ handleRefresh
    \/ ClickPrevious
    \/ ClickNext
    \/ FetchResolved
    \/ FetchRejected

Spec == Init /\ [][Next]_vars

\* ImageItem renders one image: the caption is the parsed username
ImageItem ==
    /\ ~caption.shown
    /\ caption' = [shown |-> TRUE, text |-> parseUsername(item)]
    /\ UNCHANGED <<images, currentPage, totalPages, isLoading, error, mounted,
                   inFlight, last, settled, item>>

\* an ImageItem given an image with any username value
InitItem ==
    /\ images = << >>
    /\ currentPage = 1
    /\ totalPages = 1
    /\ isLoading = FALSE
    /\ error = NoError
    /\ mounted = FALSE
    /\ inFlight = << >>
    /\ last = [op |-> "init", data |-> NoData, started |-> 0]
    /\ settled = NoneSettled
    /\ item \in Usernames
    /\ caption = NotShown

NextItem == ImageItem

SpecItem == InitItem /\ [][NextItem]_vars

\* the gallery when the refresh button is never clicked
NextNoRefresh ==
    \/ Mount
    \/ ClickPrevious
    \/ ClickNext
    \/ FetchResolved
    \/ FetchRejected

SpecNoRefresh == Init /\ [][NextNoRefresh]_vars

\* the i-th outstanding request resolves, answered by a server whose valid
\* bodies carry the page that was requested
FetchResolvedEcho ==
    \E i \in 1..Len(inFlight) : \E data \in Bodies :
        /\ IsValidShape(data) => data.currentPage = inFlight[i]
        /\ Commit(View, fetchResolved(View, data), RemoveAt(inFlight, i), "resolved", data)
        /\ settled' = Settle(i)
        /\ UNCHANGED mounted

\* a click on the refresh button or on an enabled pagination button
UserAction == handleRefresh \/ ClickPrevious \/ ClickNext

\* the request issued longest ago settles
SettleOldest == (FetchResolvedEcho \/ FetchRejected) /\ settled'.idx = 1

NextEcho ==
    \/ Mount
    \/ handleRefresh
    \/ ClickPrevious
    \/ ClickNext
    \/ FetchResolvedEcho
    \/ FetchRejected

\* every issued request eventually settles: the oldest one always does
SpecEcho == Init /\ [][NextEcho]_vars /\ WF_vars(SettleOldest)

\* the handlers invoked directly, whatever the buttons' disabled attribute
NextCalls ==
    \/ Mount
    \/ handleRefresh
    \/ goToPreviousPage
    \/ goToNextPage
    \/ FetchResolved
    \/ FetchRejected

SpecCalls == Init /\ [][NextCalls]_vars

\* ------------------------------------------------------------------ fetches
Pending == Len(inFlight) > 0
AppliedValid == last.op = "resolved" /\ IsValidShape(last.data)
AppliedMalformed == last.op = "resolved" /\ ~IsValidShape(last.data)
Failed == last.op = "rejected" \/ AppliedMalformed

\* C1: in every reachable state currentPage is an integer with
\* 1 <= currentPage <= totalPages.
C1_CurrentPageInRange ==
    /\ currentPage \in Int
    /\ 1 <= currentPage
    /\ currentPage <= totalPages

\* C2: after a fetch that ended in a transport failure (the request rejected)
\* items = [], error is the transport message and isLoading = false.
C2_TransportFailureState ==
    last.op = "rejected" =>
        /\ images = << >>
        /\ error = TransportMsg
        /\ isLoading = FALSE

\* C3: right after a validated successful response is applied, items,
\* currentPage and totalPages are those of the response, error = null and
\* isLoading = false, also when an overlapping fetch failed first.  Stated for
\* the applications that do not change the page, so that no effect follows the
\* Loading -> Loaded transition in the same step.
C3_LoadedState ==
    (AppliedValid /\ last.started = 0) =>
        /\ images = last.data.rows
        /\ currentPage = last.data.currentPage
        /\ totalPages = calculatedTotalPages(last.data)
        /\ error = NoError
        /\ isLoading = FALSE

\* C4: no two fetches for the same page number are in flight together.
C4_OneFetchPerPage ==
    \A i, j \in 1..Len(inFlight) : i # j => inFlight[i] # inFlight[j]

\* C5: whenever at least one fetch is pending, isLoading is true and both
\* the Previous and the Next control are inactive.
C5_PendingImpliesLoading ==
    Pending => (isLoading /\ PreviousDisabled /\ NextDisabled)

\* C6: isLoading = true implies that at least one fetch is in flight.
C6_LoadingImpliesPending == isLoading => Pending

\* C6 witness: a completion whose response changed the page left isLoading
\* true, with the re-fetch of the effect in flight.
C6_Witness == last.op = "resolved" /\ isLoading /\ Pending

\* C7: a goToPreviousPage or goToNextPage call that changes currentPage
\* starts exactly one new fetch, for the new page; a call that leaves
\* currentPage unchanged starts no fetch.
C7_NavigationFetch ==
    [][last'.op \in {"previous", "next"} =>
          IF currentPage' # currentPage
          THEN inFlight' = Append(inFlight, currentPage')
          ELSE inFlight' = inFlight]_vars

\* C7 witness: goToNextPage moved to a new page while a request was
\* outstanding and its fetch is the newest one in flight.
C7_Witness ==
    /\ last.op = "next"
    /\ last.started = 1
    /\ Len(inFlight) = 2
    /\ inFlight[2] = currentPage
    /\ inFlight[1] # currentPage

\* C7, the no-op case: goToPreviousPage on page 1 with nothing started.
C7_WitnessNoop == last.op = "previous" /\ last.started = 0 /\ currentPage = 1

\* C8: in every reachable state totalPages is an integer >= 1.
C8_TotalPagesPositive == totalPages \in Int /\ totalPages >= 1

\* C9: after a fetch that succeeded at transport level with a body lacking a
\* valid items container, items = [], error is the invalid-data message and
\* isLoading = false.
C9_MalformedState ==
    AppliedMalformed =>
        /\ images = << >>
        /\ error = InvalidMsg
        /\ isLoading = FALSE

\* C10: a fetch completion that ends in failure (transport failure or
\* malformed response) leaves currentPage and totalPages unchanged and starts
\* no new fetch: the outstanding requests are the former ones less the one
\* that settled; and once a failure has left nothing outstanding, the next
\* fetch is started by a refresh or a navigation call.
C10_FailureFrame ==
    [][/\ Failed' =>
            /\ currentPage' = currentPage
            /\ totalPages' = totalPages
            /\ last'.started = 0
            /\ \E i \in 1..Len(inFlight) : inFlight' = RemoveAt(inFlight, i)
       /\ (Failed /\ ~Pending /\ Pending') =>
            last'.op \in {"refresh", "previous", "next"}]_vars

\* C10 witness: a failure on a page other than the first, nothing re-issued.
C10_Witness == Failed /\ currentPage > 1 /\ ~Pending /\ ~isLoading

\* C11: the Previous control is actionable exactly when currentPage > 1 and
\* isLoading is false, and the Next control exactly when
\* currentPage < totalPages and isLoading is false.
C11_Actionability ==
    mounted =>
        /\ ~PreviousDisabled <=> (currentPage > 1 /\ ~isLoading)
        /\ ~NextDisabled <=> (currentPage < totalPages /\ ~isLoading)

\* C12: when two fetches overlap and both resolve with valid responses,
\* neither result is discarded: once the second has resolved, items,
\* currentPage and totalPages are those of the response that resolved last,
\* whether its request was issued before or after the other one.
C12_LastResolvedWins ==
    (AppliedValid /\ settled.over \in {"older", "newer"}) =>
        /\ images = last.data.rows
        /\ currentPage = last.data.currentPage
        /\ totalPages = calculatedTotalPages(last.data)

\* C12 witness: the request issued first resolved last, for another page and
\* with other rows than the displayed ones, and its response is what shows.
C12_Witness ==
    /\ AppliedValid
    /\ settled.over = "older"
    /\ last.started = 1
    /\ images = last.data.rows
    /\ Len(images) = MaxRows

\* C12, the other order: the request issued second resolved last.
C12_WitnessNewer == AppliedValid /\ settled.over = "newer" /\ last.started = 1

\* C13: every start of a fetch attempt (mount, refresh or page change) sets
\* error = null and isLoading = true and issues the request for the displayed
\* page, and leaves items, currentPage and totalPages as they were when
\* fetchImages was called: the state itself for mount and refresh, the state
\* with the new page for a navigation call, and the state the completion
\* handler produced for a page change made by an applied response.
C13_FetchStartFrame ==
    [][last'.started = 1 =>
          /\ error' = NoError
          /\ isLoading' = TRUE
          /\ inFlight'[Len(inFlight')] = currentPage'
          /\ last'.op \in {"mount", "refresh"} =>
                /\ images' = images
                /\ currentPage' = currentPage
                /\ totalPages' = totalPages
                /\ inFlight' = Append(inFlight, currentPage)
          /\ last'.op \in {"previous", "next"} =>
                /\ images' = images
                /\ totalPages' = totalPages
          /\ last'.op = "resolved" =>
                /\ images' = last'.data.rows
                /\ currentPage' = last'.data.currentPage
                /\ totalPages' = calculatedTotalPages(last'.data)]_vars

\* C13 witness: a refresh after a failed fetch on a page showing items (the
\* transport failure left them): the items stay, the error is gone.
C13_Witness ==
    /\ last.op = "refresh"
    /\ last.started = 1
    /\ Len(images) > 0
    /\ isLoading
    /\ error = NoError
    /\ currentPage > 1

\* the least number of pages of PageSize rows that hold r rows
PagesFor(r) == CHOOSE n \in 0..r : n * PageSize >= r /\ (n = 0 \/ (n - 1) * PageSize < r)

\* C14: for every valid response the totalPages stored is the declared
\* totalPages when that is a positive integer, and otherwise (absent or
\* zero) ceil(rowCount / 20).
C14_ResolvedTotalPages ==
    AppliedValid =>
        /\ last.data.totalPages > 0 => totalPages = last.data.totalPages
        /\ last.data.totalPages = 0 => totalPages = PagesFor(last.data.rowCount)

\* C14 witness: no declared total and one row more than a full page: 2 pages.
C14_Witness ==
    /\ AppliedValid
    /\ last.data.totalPages = 0
    /\ last.data.rowCount = PageSize + 1
    /\ totalPages = 2

\* C15: goToPreviousPage sets currentPage to max(currentPage - 1, 1) and
\* goToNextPage sets it to min(currentPage + 1, totalPages); neither call
\* changes items or totalPages, and neither changes error or isLoading: these
\* two change only through the fetch that the effect starts when the page
\* changed, which sets them to null and true.
C15_ClampedNavigation ==
    [][/\ last'.op = "previous" =>
            currentPage' = (IF currentPage - 1 >= 1 THEN currentPage - 1 ELSE 1)
       /\ last'.op = "next" =>
            currentPage' = (IF currentPage + 1 <= totalPages THEN currentPage + 1
                                                             ELSE totalPages)
       /\ last'.op \in {"previous", "next"} =>
            /\ images' = images
            /\ totalPages' = totalPages
            /\ IF currentPage' = currentPage
               THEN error' = error /\ isLoading' = isLoading
               ELSE error' = NoError /\ isLoading' = TRUE]_vars

\* C15 witness: goToPreviousPage on page 1 after a failed fetch: the page
\* stays 1 and the error stays.
C15_Witness ==
    /\ last.op = "previous"
    /\ currentPage = 1
    /\ last.started = 0
    /\ error # NoError

\* C15, the clamp at the upper bound: goToNextPage on the last of 3 pages.
C15_WitnessNext ==
    /\ last.op = "next"
    /\ last.started = 0
    /\ currentPage = totalPages
    /\ totalPages = MaxPage

\* C15, a move: goToPreviousPage from the last page.
C15_WitnessMove ==
    /\ last.op = "previous"
    /\ last.started = 1
    /\ currentPage = MaxPage - 1
    /\ Len(images) > 0

\* the string s without its leading run of characters of LeadChars
DropLead(s) ==
    LET kept == {k \in 1..Len(s) : s[k] \notin LeadChars}
    IN IF kept = {} THEN << >>
       ELSE SubSeq(s, CHOOSE k \in kept : \A j \in kept : k <= j, Len(s))
\* the string s without its trailing run of characters of TrailChars
DropTrail(s) ==
    LET kept == {k \in 1..Len(s) : s[k] \notin TrailChars}
    IN IF kept = {} THEN << >>
       ELSE SubSeq(s, 1, CHOOSE k \in kept : \A j \in kept : k >= j)

\* C16: the username sanitizer returns "Unknown User" for a non-string
\* input; for a string it removes the leading run of characters from
\* {", ', {} and the trailing run of characters from {}, ", '} and returns the
\* rest, or "Unknown User" when nothing is left.
C16_Sanitizer ==
    caption.shown =>
        caption.text =
            IF item.type # "string" THEN UnknownUser
            ELSE IF DropTrail(DropLead(item.chars)) = << >> THEN UnknownUser
            ELSE DropTrail(DropLead(item.chars))

\* C16 witness: {"a"} is shown as a.
C16_Witness ==
    /\ caption.shown
    /\ item.type = "string"
    /\ item.chars = <<"{", "\"", "a", "\"", "}">>
    /\ caption.text = <<"a">>

\* C16, nothing left: {} is shown as Unknown User.
C16_WitnessEmpty ==
    /\ caption.shown
    /\ item.type = "string"
    /\ item.chars = <<"{", "}">>
    /\ caption.text = UnknownUser

\* C17: in no state between event handlers are isLoading = true and
\* error # null at the same time, under every interleaving of refresh,
\* navigation and completions of overlapping fetches.
C17_NoLoadingWithError == ~(isLoading /\ error # NoError)

\* C17 witness: of two overlapping fetches one has failed and the other is
\* still outstanding: the error shows and isLoading is false.
C17_Witness ==
    /\ Failed
    /\ Pending
    /\ error # NoError
    /\ ~isLoading

\* C17, the other side: a fetch started after a failure, the error cleared.
C17_WitnessLoading ==
    last.op = "refresh" /\ isLoading /\ error = NoError /\ images = << >>

\* C19: if refresh is never invoked, at most one fetch is in flight at any
\* time: while one is, isLoading is true, so Previous and Next are inactive,
\* and a page change made by an applied response starts its fetch after the
\* request of that response has settled.
C19_OneInFlight ==
    /\ Len(inFlight) <= 1
    /\ Pending => isLoading

\* C19 witness: a response for another page was applied: its request is
\* gone and the fetch for the new page is the only one outstanding.
C19_Witness ==
    /\ AppliedValid
    /\ last.started = 1
    /\ inFlight = <<currentPage>>
    /\ currentPage < totalPages

\* C19, by navigation: Next was clicked and its fetch is the only one.
C19_WitnessNext == last.op = "next" /\ inFlight = <<currentPage>> /\ isLoading

\* C20: in every state with no fetch in flight and error = null, reached
\* after at least one fetch has resolved, items, currentPage and totalPages
\* all come from one and the same applied response: the one the last handler
\* applied.
C20_OneResponseShown ==
    (mounted /\ ~Pending /\ error = NoError) =>
        /\ AppliedValid
        /\ images = last.data.rows
        /\ currentPage = last.data.currentPage
        /\ totalPages = calculatedTotalPages(last.data)

\* C20 witness: the gallery at rest on a later page after overlapping
\* fetches, showing the rows of the response applied last.
C20_Witness ==
    /\ mounted
    /\ ~Pending
    /\ error = NoError
    /\ settled.over = "older"
    /\ currentPage > 1
    /\ Len(images) > 0

\* C18: with no further user action and every issued fetch eventually
\* resolving, the Gallery eventually reaches and stays in a state with no
\* fetch in flight and isLoading = false: either the user acts again and
\* again, or the gallery comes to rest for good.
C18_Quiescence ==
    ([]<><<UserAction>>_vars) \/ <>[](~Pending /\ ~isLoading)

TypeOK ==
    /\ images \in {RowsOf(n) : n \in 0..MaxRows}
    /\ currentPage \in 0..MaxPage
    /\ totalPages \in 0..Max(MaxPage, Ceil(PageSize + 1, PageSize))
    /\ isLoading \in BOOLEAN
    /\ error \in {NoError, TransportMsg, InvalidMsg}
    /\ mounted \in BOOLEAN
    /\ Len(inFlight) <= MaxInFlight
    /\ settled.idx \in 0..MaxInFlight
    /\ settled.over \in {"none", "older", "newer"}
====
